---- MODULE Spec2Model ----
(***************************************************************************)
(* The HeyGen render-job client of the four automation scripts:            *)
(*   GoogleSearch  HeyGen_GoogleSearch/main.py                             *)
(*   PPT           HeyGen_PPT/main.py                                      *)
(*   Youtube       HeyGen_Youtube/main.py                                  *)
(*   VideoOnly     HeyGen_ppt(...)/Heygen_Python_Code(.py)/main.py         *)
(* One run of one script, from the call that uploads the slide images to   *)
(* the end of the script.  Every network round trip and every file write   *)
(* is a step whose outcome the environment chooses.                        *)
(***************************************************************************)
EXTENDS Integers, Sequences, FiniteSets, TLC

VARIABLES
    variant,        \* which of the four scripts is running
    image_paths,    \* the list of slide images (image k is the number k)
    scripts,        \* the list of narration texts (sequences of code points)
    pc,             \* the position of the script's single control thread
    raised,         \* the exception propagating to, or printed by, the caller
    video_id,       \* the job id create_full_video returned (0: none)
    futures,        \* the executor's futures, one per image (concurrent variants)
    collected,      \* how many results the iterator of executor.map has yielded
    bg_ids,         \* the asset ids create_full_video holds
    scenes,         \* the scenes built so far
    i,              \* the index of the sequential loops
    nextAsset,      \* the asset store's next fresh id
    uploadedAs,     \* the asset id the store returned for each image (0: none)
    generated,      \* the payloads of the generate requests issued, in order
    data,           \* the last status response download_video parsed
    sleepSecs,      \* the length of the pending (or last) time.sleep
    net,            \* the requests issued: per image uploads, status, video, caption
    files,          \* the local output files
    seen,           \* the terminal status received so far ("none" before)
    hiccups,        \* status requests that failed or were malformed so far
    fault,          \* which failures the environment has produced so far
    deck,           \* fetch_content_and_make_pptx: its inputs, locals and deck
    subtitle        \* convert_ass_to_srt: the caption file and the offset

vars == <<variant, image_paths, scripts, pc, raised, video_id, futures,
          collected, bg_ids, scenes, i, nextAsset, uploadedAs, generated,
          data, sleepSecs, net, files, seen, hiccups, fault, deck, subtitle>>

-----------------------------------------------------------------------------
(* Bounds of the model.                                                    *)

MaxImages == 2
MaxPolls == 3
MaxTextLen == 2
MaxBatch == 6
MaxItems == 7
MaxLines == 2

(* Program constants.                                                      *)

MaxWorkers == 5
BackoffSecs == 5
PollSecs == 15
PPTSleepSecs == 10

Variants == {"GoogleSearch", "PPT", "Youtube", "VideoOnly"}
PollingVariants == {"GoogleSearch", "PPT", "Youtube"}
ConcurrentVariants == {"GoogleSearch", "Youtube"}

-----------------------------------------------------------------------------
(* Texts are sequences of code points.                                     *)

CJK_LO == 19968
CJK_HI == 40959
FULLWIDTH_COMMA == 65292
SPACE == 32

Texts == { <<>>, <<72>>, <<20013, FULLWIDTH_COMMA>> }

SeqsUpTo(S, n) == UNION { [1..k -> S] : k \in 0..n }

-----------------------------------------------------------------------------
(* Exceptions: a type and the text the exception carries.                  *)

NoExc == [type |-> "none", msg |-> "none"]
Exc(t, m) == [type |-> t, msg |-> m]

-----------------------------------------------------------------------------
(* What the status endpoint can answer.  kind "transport": requests.get    *)
(* raises; "malformed": the body is no JSON object with an object under    *)
(* "data"; "nostatus": a JSON object without data.status; "status": a      *)
(* well-formed answer.  video_url / caption_url: the field is present.     *)

ErrorDetails == {"invalid asset", "quota exceeded"}
InProgress == {"processing", "pending"}

StatusResp(k, s, v, c, e) ==
    [kind |-> k, status |-> s, video_url |-> v, caption_url |-> c, error |-> e]

NoData == StatusResp("none", "None", FALSE, FALSE, "None")

StatusResponses ==
    { StatusResp("transport", "None", FALSE, FALSE, "None"),
      StatusResp("malformed", "None", FALSE, FALSE, "None"),
      StatusResp("nostatus", "None", FALSE, FALSE, "None") }
    \cup { StatusResp("status", s, FALSE, FALSE, "None") : s \in InProgress }
    \cup { StatusResp("status", "completed", v, c, "None") : v, c \in BOOLEAN }
    \cup { StatusResp("status", "failed", FALSE, FALSE, e) : e \in ErrorDetails }

IsTerminal(r) == r.kind = "status" /\ r.status \in {"completed", "failed"}
IsHiccup(r) == r.kind \in {"transport", "malformed"}

(* What an artifact download and the write of its file can do.             *)
DownloadOutcomes == {"open_error", "transport", "write_error", "ok200", "ok404"}
CaptionOutcomes == {"transport", "write_error", "vtt", "srt", "convert_error"}

-----------------------------------------------------------------------------
(* download_video: the decision taken on one status response.              *)
(* next: where control goes; secs: the sleep; exc: the exception raised.   *)

Step(n, s, e) == [next |-> n, secs |-> s, exc |-> e]

(* A loop that ends on a status it does not know.                         *)
PollGoogleSearchBreakOnUnknown(r) ==
    IF r.kind \in {"transport", "malformed"}
    THEN Step("sleep", BackoffSecs, NoExc)
    ELSE IF r.status = "completed" THEN Step("video", 0, NoExc)
    ELSE IF r.status = "failed" THEN Step("dl_raised", 0, Exc("Exception", r.error))
    ELSE IF r.kind = "nostatus" THEN Step("dl_returned", 0, NoExc)
    ELSE Step("sleep", PollSecs, NoExc)

PollGoogleSearch(r) ==
    IF r.kind \in {"transport", "malformed"}
    THEN Step("sleep", BackoffSecs, NoExc)
    ELSE IF r.status = "completed" THEN Step("video", 0, NoExc)
    ELSE IF r.status = "failed" THEN Step("dl_raised", 0, Exc("Exception", r.error))
    ELSE Step("sleep", PollSecs, NoExc)

(* A loop that gives up on the second failed status request.              *)
PollYoutubeGiveUp(r) ==
    IF r.kind \in {"transport", "malformed"}
    THEN IF hiccups >= 1
         THEN Step("dl_raised", 0, Exc("TransportError", "get"))
         ELSE Step("sleep", BackoffSecs, NoExc)
    ELSE IF r.status = "completed" THEN Step("video", 0, NoExc)
    ELSE IF r.status = "failed" THEN Step("dl_raised", 0, Exc("Exception", r.error))
    ELSE Step("sleep", PollSecs, NoExc)

PollYoutube(r) ==
    IF r.kind \in {"transport", "malformed"}
    THEN Step("sleep", BackoffSecs, NoExc)
    ELSE IF r.status = "completed" THEN Step("video", 0, NoExc)
    ELSE IF r.status = "failed" THEN Step("dl_raised", 0, Exc("Exception", r.error))
    ELSE Step("sleep", PollSecs, NoExc)

(* An except clause that loops at once, without its sleep.                 *)
PollPPTNoSleep(r) ==
    IF r.kind \in {"transport", "malformed", "nostatus"}
    THEN Step("poll", 0, NoExc)
    ELSE IF r.status = "completed" THEN Step("video", 0, NoExc)
    ELSE IF r.status = "failed" THEN Step("dl_returned", 0, NoExc)
    ELSE Step("sleep", PPTSleepSecs, NoExc)

PollPPT(r) ==
    IF r.kind \in {"transport", "malformed", "nostatus"}
    THEN Step("sleep", PPTSleepSecs, NoExc)
    ELSE IF r.status = "completed" THEN Step("video", 0, NoExc)
    ELSE IF r.status = "failed" THEN Step("dl_returned", 0, NoExc)
    ELSE Step("sleep", PPTSleepSecs, NoExc)

Poll(v, r) ==
    CASE v = "GoogleSearch" -> PollGoogleSearch(r)
      [] v = "Youtube" -> PollYoutube(r)
      [] OTHER -> PollPPT(r)

-----------------------------------------------------------------------------
(* download_video: what the download of the video does once the status is  *)
(* "completed".  o is what the environment does to the download.           *)
(* req: download requests issued; file: the file afterwards; wrote: the    *)
(* file was opened for writing (1) or not (0).                             *)

Fetch(n, s, e, q, f) ==
    [next |-> n, secs |-> s, exc |-> e, req |-> q, file |-> f.state, wrote |-> f.wrote]

Kept(old) == [state |-> old, wrote |-> 0]
Written(new) == [state |-> new, wrote |-> 1]

(* The bytes written are the response's content, whatever its status.     *)
Content(o) == IF o = "ok200" THEN "artifact" ELSE "errorbody"

(* open(path, "wb") comes first, then requests.get, then f.write.          *)
OpenThenGet(o, old, after) ==
    CASE o = "open_error" -> Fetch("dl_raised", 0, Exc("OSError", "open"), 0, Kept(old))
      [] o = "transport" -> Fetch("dl_raised", 0, Exc("TransportError", "get"), 1, Written("empty"))
      [] o = "write_error" -> Fetch("dl_raised", 0, Exc("OSError", "write"), 1, Written("empty"))
      [] OTHER -> Fetch(after, 0, NoExc, 1, Written(Content(o)))

VideoGoogleSearch(d, o, old) ==
    IF d.video_url THEN OpenThenGet(o, old, "caption")
    ELSE Fetch("caption", 0, NoExc, 0, Kept(old))

(* A completed branch without its break: after the download the loop goes  *)
(* on.                                                                     *)
VideoYoutubeNoBreak(d, o, old) ==
    IF d.video_url THEN OpenThenGet(o, old, "sleep")
    ELSE Fetch("sleep", PollSecs, NoExc, 0, Kept(old))

VideoYoutube(d, o, old) ==
    IF d.video_url THEN OpenThenGet(o, old, "dl_returned")
    ELSE Fetch("dl_returned", 0, NoExc, 0, Kept(old))

(* requests.get comes first, then open and write; the enclosing try        *)
(* catches whatever they raise, sleeps and loops.                          *)
VideoPPT(d, o, old) ==
    IF ~d.video_url THEN Fetch("caption", 0, NoExc, 0, Kept(old))
    ELSE CASE o = "transport" -> Fetch("sleep", PPTSleepSecs, NoExc, 1, Kept(old))
           [] o = "open_error" -> Fetch("sleep", PPTSleepSecs, NoExc, 1, Kept(old))
           [] o = "write_error" -> Fetch("sleep", PPTSleepSecs, NoExc, 1, Written("empty"))
           [] OTHER -> Fetch("caption", 0, NoExc, 1, Written(Content(o)))

Video(v, d, o, old) ==
    CASE v = "GoogleSearch" -> VideoGoogleSearch(d, o, old)
      [] v = "Youtube" -> VideoYoutube(d, o, old)
      [] OTHER -> VideoPPT(d, o, old)

(* A download_video that leaves the caption alone.                         *)
CaptionGoogleSearchSkipped(d, o, old) == Fetch("dl_returned", 0, NoExc, 0, Kept(old))

CaptionGoogleSearch(d, o, old) ==
    IF d.caption_url THEN OpenThenGet(o, old, "dl_returned")
    ELSE Fetch("dl_returned", 0, NoExc, 0, Kept(old))

(* A caption block without a try of its own: what it raises is caught by   *)
(* the try of the poll loop.                                               *)
CaptionPPTUnguarded(d, o, old) ==
    IF ~d.caption_url THEN Fetch("dl_returned", 0, NoExc, 0, Kept(old))
    ELSE CASE o = "transport" -> Fetch("sleep", PPTSleepSecs, NoExc, 1, Kept(old))
           [] o = "write_error" -> Fetch("sleep", PPTSleepSecs, NoExc, 1, Written("empty"))
           [] o = "vtt" -> Fetch("dl_returned", 0, NoExc, 1, Written("vtt"))
           [] o = "srt" -> Fetch("dl_returned", 0, NoExc, 1, Written("srt"))
           [] OTHER -> Fetch("sleep", PPTSleepSecs, NoExc, 1, Written("raw"))

(* The caption block has its own try: nothing it raises leaves it.         *)
CaptionPPT(d, o, old) ==
    IF ~d.caption_url THEN Fetch("dl_returned", 0, NoExc, 0, Kept(old))
    ELSE CASE o = "transport" -> Fetch("dl_returned", 0, NoExc, 1, Kept(old))
           [] o = "write_error" -> Fetch("dl_returned", 0, NoExc, 1, Written("empty"))
           [] o = "vtt" -> Fetch("dl_returned", 0, NoExc, 1, Written("vtt"))
           [] o = "srt" -> Fetch("dl_returned", 0, NoExc, 1, Written("srt"))
           [] OTHER -> Fetch("dl_returned", 0, NoExc, 1, Written("raw"))

-----------------------------------------------------------------------------
(* The actions of download_video.                                          *)

localVars == <<deck, subtitle>>
createVars == <<futures, collected, bg_ids, scenes, i, nextAsset, uploadedAs,
                generated, video_id>>
inputVars == <<variant, image_paths, scripts>>

(* One pass of the loop up to the status check, the answer drawn from R.    *)
poll_step(R) ==
    /\ pc = "poll"
    /\ net.status < MaxPolls
    /\ \E r \in R :
         LET d == Poll(variant, r) IN
           /\ net' = [net EXCEPT !.status = @ + 1]
           /\ data' = IF IsHiccup(r) THEN data ELSE r
           /\ seen' = IF IsTerminal(r) THEN r.status ELSE seen
           /\ hiccups' = IF IsHiccup(r) THEN hiccups + 1 ELSE hiccups
           /\ pc' = d.next
           /\ sleepSecs' = IF d.next = "sleep" THEN d.secs ELSE sleepSecs
           /\ raised' = d.exc
    /\ UNCHANGED <<localVars, inputVars, createVars, files, fault>>

download_video_poll == poll_step(StatusResponses)

download_video_sleep ==
    /\ pc = "sleep"
    /\ pc' = "poll"
    /\ UNCHANGED <<localVars, inputVars, createVars, raised, data, sleepSecs, net, files,
                   seen, hiccups, fault>>

(* The download of the video, its outcome drawn from O.                     *)
video_step(O) ==
    /\ pc = "video"
    /\ \E o \in O :
         LET f == Video(variant, data, o, files.video) IN
           /\ net' = [net EXCEPT !.video = @ + f.req]
           /\ files' = [files EXCEPT !.video = f.file, !.videoWrites = @ + f.wrote]
           /\ pc' = f.next
           /\ sleepSecs' = IF f.next = "sleep" THEN f.secs ELSE sleepSecs
           /\ raised' = f.exc
           /\ fault' = IF data.video_url /\ o = "transport"
                       THEN [fault EXCEPT !.fetch = TRUE] ELSE fault
    /\ UNCHANGED <<localVars, inputVars, createVars, data, seen, hiccups>>

download_video_video == video_step(DownloadOutcomes)

(* The download of the caption, its outcome drawn from O.                   *)
caption_step_GoogleSearch(O) ==
    /\ pc = "caption"
    /\ variant = "GoogleSearch"
    /\ \E o \in O :
         LET f == CaptionGoogleSearch(data, o, files.caption) IN
           /\ net' = [net EXCEPT !.caption = @ + f.req]
           /\ files' = [files EXCEPT !.caption = f.file]
           /\ pc' = f.next
           /\ raised' = f.exc
           /\ fault' = IF data.caption_url /\ o = "transport"
                       THEN [fault EXCEPT !.fetch = TRUE] ELSE fault
    /\ UNCHANGED <<localVars, inputVars, createVars, data, sleepSecs, seen, hiccups>>

download_video_caption_GoogleSearch == caption_step_GoogleSearch(DownloadOutcomes)

download_video_caption_PPT ==
    /\ pc = "caption"
    /\ variant = "PPT"
    /\ \E o \in CaptionOutcomes :
         LET f == CaptionPPT(data, o, files.caption) IN
           /\ net' = [net EXCEPT !.caption = @ + f.req]
           /\ files' = [files EXCEPT !.caption = f.file]
           /\ pc' = f.next
           /\ raised' = f.exc
           /\ fault' = IF data.caption_url /\ o = "transport"
                       THEN [fault EXCEPT !.fetch = TRUE] ELSE fault
    /\ UNCHANGED <<localVars, inputVars, createVars, data, sleepSecs, seen, hiccups>>

-----------------------------------------------------------------------------
(* The asset upload.  An upload is answered by a transport error or by an  *)
(* HTTP response with a status and a body; the body either holds data.id   *)
(* or it does not.  An exception that carries the body has the body as msg.*)

HTTP_OK == 200
HttpStatuses == {HTTP_OK, 201, 500}
(* requests.Response.ok *)
IsOk(status) == status < 400

UploadBodies == {"{data:{id}}", "{message}"}

Http(k, st, b) == [kind |-> k, status |-> st, body |-> b]

UploadOutcomes ==
    { Http("transport", 0, "none") }
    \cup { Http("http", st, b) : st \in HttpStatuses, b \in UploadBodies }

(* The failures the environment produces, as the run has met them:         *)
(* upload: an upload met a transport error or a non-success HTTP status;   *)
(* submit: the generate request met a transport error; rejected: it was    *)
(* answered with a non-success status, or with 200 and an error field;     *)
(* fetch: an artifact download met a transport error.                      *)
NoFault == [upload |-> FALSE, submit |-> FALSE, rejected |-> FALSE, fetch |-> FALSE]

UploadFailed(o) == o.kind = "transport" \/ ~IsOk(o.status)

(* ret: "id" (an asset id is returned), "None", or "raise" (with exc).     *)
Ret(r, e) == [ret |-> r, exc |-> e]

JsonDataId(o) ==
    IF o.body = "{data:{id}}" THEN Ret("id", NoExc)
    ELSE Ret("raise", Exc("KeyError", "data"))

UploadGoogleSearch(o) ==
    IF o.kind = "transport" THEN Ret("raise", Exc("TransportError", "post"))
    ELSE JsonDataId(o)

UploadYoutube(o) ==
    IF o.kind = "transport" THEN Ret("raise", Exc("TransportError", "post"))
    ELSE IF ~IsOk(o.status) THEN Ret("raise", Exc("Exception", o.body))
    ELSE JsonDataId(o)

UploadPPT(o) ==
    IF o.kind = "transport" THEN Ret("raise", Exc("TransportError", "post"))
    ELSE IF o.status = HTTP_OK THEN JsonDataId(o)
    ELSE Ret("raise", Exc("Exception", o.body))

upload_image(o) ==
    IF o.kind = "transport" THEN Ret("raise", Exc("TransportError", "post"))
    ELSE IF o.status # HTTP_OK THEN Ret("None", NoExc)
    ELSE JsonDataId(o)

upload_to_heygen(v, o) ==
    CASE v = "GoogleSearch" -> UploadGoogleSearch(o)
      [] v = "Youtube" -> UploadYoutube(o)
      [] OTHER -> UploadPPT(o)

-----------------------------------------------------------------------------
(* The scenes.                                                             *)

(* A character class that leaves out the two ends of the block.            *)
IsCJKExclusive(c) == CJK_LO < c /\ c < CJK_HI

IsCJK(c) == CJK_LO <= c /\ c <= CJK_HI

detect_voice_id(text) ==
    IF \E k \in 1..Len(text) : IsCJK(text[k]) THEN "VOICE_ID_ZH" ELSE "VOICE_ID_EN"

detect_voice_and_locale(text) ==
    IF \E k \in 1..Len(text) : IsCJK(text[k]) THEN <<"VOICE_ID_ZH", "zh-TW">>
    ELSE <<"VOICE_ID_EN", "en-US">>

(* script.replace(fullwidth comma, fullwidth comma + space)                *)
RECURSIVE CommaPause(_)
CommaPause(text) ==
    IF text = <<>> THEN <<>>
    ELSE IF Head(text) = FULLWIDTH_COMMA
         THEN <<FULLWIDTH_COMMA, SPACE>> \o CommaPause(Tail(text))
         ELSE <<Head(text)>> \o CommaPause(Tail(text))

Scene(voice, locale, text, asset) ==
    [voice_id |-> voice, locale |-> locale, input_text |-> text, image_asset_id |-> asset]

Min(a, b) == IF a < b THEN a ELSE b

(* for bg_id, script in zip(bg_ids, scripts)                               *)
ZipScenes(ids, texts) ==
    [k \in 1..Min(Len(ids), Len(texts)) |->
        Scene(detect_voice_id(texts[k]), "none", CommaPause(texts[k]), ids[k])]

(* A scene whose background is not the asset just uploaded.                *)
ScenePPTNoAsset(id, text) == Scene(detect_voice_id(text), "none", text, 0)

ScenePPT(id, text) == Scene(detect_voice_id(text), "none", text, id)

SceneVideoOnly(id, text) ==
    Scene(detect_voice_and_locale(text)[1], detect_voice_and_locale(text)[2], text, id)

-----------------------------------------------------------------------------
(* The generate request.  The body of the answer: with or without a        *)
(* non-empty error field, with or without data.video_id, or no JSON.       *)

GenerateBodies ==
    {"{data:{video_id}}", "{error,data:{video_id}}", "{error,data:null}", "{}", "<html>"}

HasVideoId(b) == b \in {"{data:{video_id}}", "{error,data:{video_id}}"}
HasError(b) == b \in {"{error,data:{video_id}}", "{error,data:null}"}
IsJson(b) == b # "<html>"

Rejected(o) ==
    /\ o.kind = "http"
    /\ ~IsOk(o.status) \/ (o.status = HTTP_OK /\ HasError(o.body))

GenerateOutcomes ==
    { Http("transport", 0, "none") }
    \cup { Http("http", st, b) : st \in HttpStatuses, b \in GenerateBodies }

(* resp.json()["data"]["video_id"].  A JSONDecodeError holds the text it   *)
(* could not parse (its doc attribute), which is the body.                 *)
JsonDataVideoId(o) ==
    IF ~IsJson(o.body) THEN Ret("raise", Exc("JSONDecodeError", o.body))
    ELSE IF HasVideoId(o.body) THEN Ret("id", NoExc)
    ELSE IF o.body = "{error,data:null}" THEN Ret("raise", Exc("TypeError", "NoneType"))
    ELSE Ret("raise", Exc("KeyError", "data"))

GenerateGoogleSearch(o) ==
    IF o.kind = "transport" THEN Ret("raise", Exc("TransportError", "post"))
    ELSE JsonDataVideoId(o)

GenerateYoutube(o) ==
    IF o.kind = "transport" THEN Ret("raise", Exc("TransportError", "post"))
    ELSE IF ~IsOk(o.status) THEN Ret("raise", Exc("Exception", o.body))
    ELSE JsonDataVideoId(o)

GeneratePPT(o) ==
    IF o.kind = "transport" THEN Ret("raise", Exc("TransportError", "post"))
    ELSE IF ~IsJson(o.body) THEN Ret("raise", Exc("JSONDecodeError", o.body))
    ELSE IF o.status = HTTP_OK /\ ~HasError(o.body) THEN JsonDataVideoId(o)
    ELSE Ret("raise", Exc("Exception", o.body))

(* create_video of the video-only script: every failure is printed and     *)
(* None is returned.                                                       *)
create_video(o) ==
    IF o.kind = "transport" THEN Ret("None", NoExc)
    ELSE IF o.status = HTTP_OK /\ IsJson(o.body) /\ HasVideoId(o.body) THEN Ret("id", NoExc)
    ELSE Ret("None", NoExc)

Generate(v, o) ==
    CASE v = "GoogleSearch" -> GenerateGoogleSearch(o)
      [] v = "Youtube" -> GenerateYoutube(o)
      [] OTHER -> GeneratePPT(o)

-----------------------------------------------------------------------------
(* ThreadPoolExecutor(max_workers=5).map(upload_to_heygen, image_paths)    *)

Future(st, res, e) == [state |-> st, result |-> res, exc |-> e]

Running(fs) == { k \in 1..Len(fs) : fs[k].state = "running" }
Queued(fs) == { k \in 1..Len(fs) : fs[k].state = "queued" }

(* The results in the order the uploads completed (the store hands out    *)
(* increasing ids), as a gather over as_completed would give them.         *)
MapResultsAsCompleted(fs) ==
    LET ids == { fs[k].result : k \in 1..Len(fs) } IN
      [k \in 1..Len(fs) |->
          CHOOSE x \in ids : Cardinality({ y \in ids : y < x }) = k - 1]

(* list(executor.map(...)): the results in the order of the inputs.        *)
MapResults(fs) == [k \in 1..Len(fs) |-> fs[k].result]

(* The iterator's finally: every future not yet started is cancelled.      *)
CancelQueued(fs) ==
    [k \in 1..Len(fs) |->
        IF fs[k].state = "queued" THEN Future("cancelled", 0, NoExc) ELSE fs[k]]

dlVars == <<data, sleepSecs, files, seen, hiccups>>

(* A pool that starts a thread for every submitted call.                   *)
HasIdleWorkerUnbounded(fs) == TRUE

(* The pool runs a queued call only when fewer than max_workers are busy.  *)
HasIdleWorker(fs) == Cardinality(Running(fs)) < MaxWorkers

worker_start(k) ==
    /\ pc = "uploading"
    /\ k \in Queued(futures)
    /\ \A j \in Queued(futures) : k <= j
    /\ HasIdleWorker(futures)
    /\ \E exists \in BOOLEAN :
         IF exists
         THEN /\ futures' = [futures EXCEPT ![k].state = "running"]
              /\ net' = [net EXCEPT !.upload[k] = @ + 1]
         ELSE /\ futures' = [futures EXCEPT
                               ![k] = Future("failed", 0, Exc("FileNotFoundError", "open"))]
              /\ net' = net
    /\ UNCHANGED <<localVars, inputVars, pc, raised, video_id, collected, bg_ids, scenes, i,
                   nextAsset, uploadedAs, generated, dlVars, fault>>

(* The upload of image k ends, its outcome drawn from O.                    *)
finish_step(k, O) ==
    /\ pc = "uploading"
    /\ k \in Running(futures)
    /\ \E o \in O :
         LET r == upload_to_heygen(variant, o) IN
           /\ fault' = IF UploadFailed(o) THEN [fault EXCEPT !.upload = TRUE] ELSE fault
           /\ IF r.ret = "id"
              THEN /\ futures' = [futures EXCEPT ![k] = Future("done", nextAsset, NoExc)]
                   /\ uploadedAs' = [uploadedAs EXCEPT ![k] = nextAsset]
                   /\ nextAsset' = nextAsset + 1
              ELSE /\ futures' = [futures EXCEPT ![k] = Future("failed", 0, r.exc)]
                   /\ UNCHANGED <<uploadedAs, nextAsset>>
    /\ UNCHANGED <<localVars, inputVars, pc, raised, video_id, collected, bg_ids, scenes, i,
                   generated, net, dlVars>>

worker_finish(k) == finish_step(k, UploadOutcomes)

map_collect ==
    /\ pc = "uploading"
    /\ raised = NoExc
    /\ collected < Len(futures)
    /\ futures[collected + 1].state \in {"done", "failed"}
    /\ IF futures[collected + 1].state = "done"
       THEN /\ collected' = collected + 1
            /\ UNCHANGED <<raised, futures>>
       ELSE /\ raised' = futures[collected + 1].exc
            /\ futures' = CancelQueued(futures)
            /\ UNCHANGED collected
    /\ UNCHANGED <<localVars, inputVars, pc, video_id, bg_ids, scenes, i, nextAsset,
                   uploadedAs, generated, net, dlVars, fault>>

(* The with block ends: shutdown(wait=True), then the list or the raise.   *)
executor_exit ==
    /\ pc = "uploading"
    /\ collected = Len(futures) \/ raised # NoExc
    /\ Running(futures) = {}
    /\ IF raised = NoExc
       THEN /\ bg_ids' = MapResults(futures)
            /\ pc' = "scenes"
       ELSE /\ pc' = "create_raised"
            /\ UNCHANGED bg_ids
    /\ UNCHANGED <<localVars, inputVars, raised, video_id, futures, collected, scenes, i,
                   nextAsset, uploadedAs, generated, net, dlVars, fault>>

build_scenes ==
    /\ pc = "scenes"
    /\ scenes' = ZipScenes(bg_ids, scripts)
    /\ pc' = "generate"
    /\ UNCHANGED <<localVars, inputVars, raised, video_id, futures, collected, bg_ids, i,
                   nextAsset, uploadedAs, generated, net, dlVars, fault>>

-----------------------------------------------------------------------------
(* create_full_video of the PPT script: upload and scene, one image after  *)
(* the other.                                                              *)

ppt_upload ==
    /\ pc = "ppt_loop"
    /\ i <= Min(Len(image_paths), Len(scripts))
    /\ \E exists \in BOOLEAN, o \in UploadOutcomes :
         LET r == upload_to_heygen(variant, o) IN
           IF ~exists
           THEN /\ raised' = Exc("FileNotFoundError", "open")
                /\ pc' = "create_raised"
                /\ UNCHANGED <<bg_ids, scenes, i, nextAsset, uploadedAs, net, fault>>
           ELSE /\ net' = [net EXCEPT !.upload[i] = @ + 1]
                /\ fault' = IF UploadFailed(o) THEN [fault EXCEPT !.upload = TRUE] ELSE fault
                /\ IF r.ret = "id"
                   THEN /\ bg_ids' = Append(bg_ids, nextAsset)
                        /\ scenes' = Append(scenes, ScenePPT(nextAsset, scripts[i]))
                        /\ uploadedAs' = [uploadedAs EXCEPT ![i] = nextAsset]
                        /\ nextAsset' = nextAsset + 1
                        /\ i' = i + 1
                        /\ UNCHANGED <<pc, raised>>
                   ELSE /\ raised' = r.exc
                        /\ pc' = "create_raised"
                        /\ UNCHANGED <<bg_ids, scenes, i, nextAsset, uploadedAs>>
    /\ UNCHANGED <<localVars, inputVars, video_id, futures, collected, generated, dlVars>>

ppt_loop_exit ==
    /\ pc = "ppt_loop"
    /\ i > Min(Len(image_paths), Len(scripts))
    /\ pc' = "generate"
    /\ UNCHANGED <<localVars, inputVars, raised, createVars, net, dlVars, fault>>

(* requests.post(GENERATE_URL_V2, json=payload) and what follows it.       *)
generate ==
    /\ pc = "generate"
    /\ \E o \in GenerateOutcomes :
         LET r == Generate(variant, o) IN
           /\ generated' = Append(generated, scenes)
           /\ fault' = [fault EXCEPT !.submit = @ \/ o.kind = "transport",
                                     !.rejected = @ \/ Rejected(o)]
           /\ IF r.ret = "id"
              THEN /\ video_id' = 1
                   /\ pc' = "poll"
                   /\ UNCHANGED raised
              ELSE /\ raised' = r.exc
                   /\ pc' = "create_raised"
                   /\ UNCHANGED video_id
    /\ UNCHANGED <<localVars, inputVars, futures, collected, bg_ids, scenes, i, nextAsset,
                   uploadedAs, net, dlVars>>

-----------------------------------------------------------------------------
(* The __main__ blocks of the GoogleSearch, PPT and Youtube scripts: the   *)
(* except clause prints the exception and the script ends.                 *)

(* A handler that submits the job again when the render failed.           *)
RetryAfterException(p) == IF p = "dl_raised" THEN "generate" ELSE "exit_error"

AfterException(p) == "exit_error"

main_except ==
    /\ pc \in {"create_raised", "dl_raised"}
    /\ pc' = AfterException(pc)
    /\ UNCHANGED <<localVars, inputVars, raised, createVars, net, dlVars, fault>>

main_success ==
    /\ pc = "dl_returned"
    /\ pc' = "exit_ok"
    /\ UNCHANGED <<localVars, inputVars, raised, createVars, net, dlVars, fault>>

-----------------------------------------------------------------------------
(* main of the video-only script: one job per slide.  scripts is the dict  *)
(* slide number -> text; scripts.get(k, "") is the empty text for a slide  *)
(* without a row.                                                          *)

ScriptFor(k) == IF k \in 1..Len(scripts) THEN scripts[k] ELSE <<>>

vo_main ==
    /\ pc = "vo_main"
    /\ pc' = IF scripts = <<>> \/ image_paths = <<>> THEN "exit_ok" ELSE "vo_loop"
    /\ UNCHANGED <<localVars, inputVars, raised, createVars, net, dlVars, fault>>

(* A loop that takes every slide to the upload, with or without a script.  *)
vo_next_AnyScript ==
    /\ pc = "vo_loop"
    /\ IF i > Len(image_paths)
       THEN pc' = "exit_ok" /\ i' = i
       ELSE pc' = "vo_upload" /\ i' = i
    /\ UNCHANGED <<localVars, inputVars, raised, video_id, futures, collected, bg_ids, scenes,
                   nextAsset, uploadedAs, generated, net, dlVars, fault>>

vo_next ==
    /\ pc = "vo_loop"
    /\ IF i > Len(image_paths)
       THEN pc' = "exit_ok" /\ i' = i
       ELSE IF ScriptFor(i) = <<>>
            THEN pc' = pc /\ i' = i + 1
            ELSE pc' = "vo_upload" /\ i' = i
    /\ UNCHANGED <<localVars, inputVars, raised, video_id, futures, collected, bg_ids, scenes,
                   nextAsset, uploadedAs, generated, net, dlVars, fault>>

vo_upload ==
    /\ pc = "vo_upload"
    /\ \E exists \in BOOLEAN, o \in UploadOutcomes :
         LET r == upload_image(o) IN
           IF ~exists
           THEN /\ raised' = Exc("FileNotFoundError", "open")
                /\ pc' = "crashed"
                /\ UNCHANGED <<bg_ids, i, nextAsset, uploadedAs, net, fault>>
           ELSE /\ net' = [net EXCEPT !.upload[i] = @ + 1]
                /\ fault' = IF UploadFailed(o) THEN [fault EXCEPT !.upload = TRUE] ELSE fault
                /\ CASE r.ret = "id" ->
                          /\ bg_ids' = Append(bg_ids, nextAsset)
                          /\ uploadedAs' = [uploadedAs EXCEPT ![i] = nextAsset]
                          /\ nextAsset' = nextAsset + 1
                          /\ pc' = "vo_generate"
                          /\ UNCHANGED <<raised, i>>
                     [] r.ret = "None" ->
                          /\ pc' = "vo_loop"
                          /\ i' = i + 1
                          /\ UNCHANGED <<raised, bg_ids, nextAsset, uploadedAs>>
                     [] OTHER ->
                          /\ raised' = r.exc
                          /\ pc' = "crashed"
                          /\ UNCHANGED <<bg_ids, i, nextAsset, uploadedAs>>
    /\ UNCHANGED <<localVars, inputVars, video_id, futures, collected, scenes, generated, dlVars>>

vo_create_video ==
    /\ pc = "vo_generate"
    /\ \E o \in GenerateOutcomes :
         LET r == create_video(o) IN
           /\ generated' = Append(generated, <<SceneVideoOnly(uploadedAs[i], ScriptFor(i))>>)
           /\ scenes' = Append(scenes, SceneVideoOnly(uploadedAs[i], ScriptFor(i)))
           /\ video_id' = IF r.ret = "id" THEN 1 ELSE 0
           /\ fault' = [fault EXCEPT !.submit = @ \/ o.kind = "transport",
                                     !.rejected = @ \/ Rejected(o)]
    /\ sleepSecs' = 1
    /\ i' = i + 1
    /\ pc' = "vo_loop"
    /\ UNCHANGED <<localVars, inputVars, raised, futures, collected, bg_ids, nextAsset,
                   uploadedAs, net, data, files, seen, hiccups>>

-----------------------------------------------------------------------------
(* One run: the script, the image list and the script list are the inputs. *)

(* Before fetch_content_and_make_pptx, or after it, and outside            *)
(* convert_ass_to_srt.                                                     *)
NoDeck == [at |-> "none"]
NoSubtitle == [at |-> "none"]

(* The run before create_full_video has done anything.                     *)
InitRun(vs, ns, ss) ==
    /\ variant \in vs
    /\ \E n \in ns : image_paths = [k \in 1..n |-> k]
    /\ scripts \in ss
    /\ raised = NoExc
    /\ video_id = 0
    /\ futures = IF variant \in ConcurrentVariants
                 THEN [k \in 1..Len(image_paths) |-> Future("queued", 0, NoExc)]
                 ELSE <<>>
    /\ collected = 0
    /\ bg_ids = <<>>
    /\ scenes = <<>>
    /\ i = 1
    /\ nextAsset = 1
    /\ uploadedAs = [k \in 1..Len(image_paths) |-> 0]
    /\ generated = <<>>
    /\ data = NoData
    /\ sleepSecs = 0
    /\ net = [upload |-> [k \in 1..Len(image_paths) |-> 0],
              status |-> 0, video |-> 0, caption |-> 0]
    /\ files = [video |-> "absent", videoWrites |-> 0, caption |-> "absent"]
    /\ seen = "none"
    /\ hiccups = 0
    /\ fault = NoFault

InitFor(vs, ns, ss) ==
    /\ InitRun(vs, ns, ss)
    /\ pc = CASE variant \in ConcurrentVariants -> "uploading"
              [] variant = "PPT" -> "ppt_loop"
              [] OTHER -> "vo_main"
    /\ deck = NoDeck
    /\ subtitle = NoSubtitle

Init == InitFor(Variants, 0..MaxImages, SeqsUpTo(Texts, MaxImages))

Next ==
    \/ \E k \in 1..MaxImages + 1 : worker_start(k)
    \/ \E k \in 1..MaxImages + 1 : worker_finish(k)
    \/ map_collect
    \/ executor_exit
    \/ build_scenes
    \/ ppt_upload
    \/ ppt_loop_exit
    \/ generate
    \/ download_video_poll
    \/ download_video_sleep
    \/ download_video_video
    \/ download_video_caption_GoogleSearch
    \/ download_video_caption_PPT
    \/ main_except
    \/ main_success
    \/ vo_main
    \/ vo_next
    \/ vo_upload
    \/ vo_create_video

Spec == Init /\ [][Next]_vars

-----------------------------------------------------------------------------
(* The upload phase of the GoogleSearch and Youtube create_full_video for   *)
(* batches that do not fit the pool: more images than workers.              *)

(* An upload is answered 200 with an asset id, or fails in transport.       *)
BatchOutcomes == { Http("transport", 0, "none"), Http("http", HTTP_OK, "{data:{id}}") }

batch_finish(k) == finish_step(k, BatchOutcomes)

InitUpload == InitFor(ConcurrentVariants, MaxWorkers + 1..MaxBatch, {<<>>})

NextUpload ==
    \/ \E k \in 1..MaxBatch : worker_start(k)
    \/ \E k \in 1..MaxBatch : batch_finish(k)
    \/ map_collect
    \/ executor_exit

SpecUpload == InitUpload /\ [][NextUpload]_vars

-----------------------------------------------------------------------------
(* The voice of a scene, for texts around the two ends of the CJK block:    *)
(* each script builds the scene of one image and one text.                  *)

VoiceChars == {72, CJK_LO - 1, CJK_LO, CJK_HI, CJK_HI + 1}
VoiceTexts == SeqsUpTo(VoiceChars, MaxTextLen)

SceneOf(v, id, text) ==
    CASE v \in ConcurrentVariants -> ZipScenes(<<id>>, <<text>>)[1]
      [] v = "PPT" -> ScenePPT(id, text)
      [] OTHER -> SceneVideoOnly(id, text)

build_scene ==
    /\ scenes = <<>>
    /\ \E text \in VoiceTexts :
         /\ scripts' = <<text>>
         /\ scenes' = <<SceneOf(variant, nextAsset, text)>>
    /\ UNCHANGED <<localVars, variant, image_paths, pc, raised, video_id, futures, collected,
                   bg_ids, i, nextAsset, uploadedAs, generated, net, dlVars, fault>>

InitVoice == Init /\ image_paths = <<>> /\ scripts = <<>>

SpecVoice == InitVoice /\ [][build_scene]_vars

-----------------------------------------------------------------------------
(* The GoogleSearch, PPT and Youtube scripts against a status endpoint that *)
(* answers "processing" to the first status request and "completed" with    *)
(* both URLs to every later one, and artifact URLs that answer 200 with a   *)
(* file that is written without error.                                      *)

Processing == StatusResp("status", "processing", FALSE, FALSE, "None")
CompletedBoth == StatusResp("status", "completed", TRUE, TRUE, "None")

ScriptedAnswer(k) == IF k = 0 THEN Processing ELSE CompletedBoth

scripted_poll == poll_step({ScriptedAnswer(net.status)})

scripted_video == video_step({"ok200"})

scripted_caption_GoogleSearch == caption_step_GoogleSearch({"ok200"})

InitScripted == Init /\ variant \in PollingVariants

NextScripted ==
    \/ \E k \in 1..MaxImages + 1 : worker_start(k)
    \/ \E k \in 1..MaxImages + 1 : worker_finish(k)
    \/ map_collect
    \/ executor_exit
    \/ build_scenes
    \/ ppt_upload
    \/ ppt_loop_exit
    \/ generate
    \/ scripted_poll
    \/ download_video_sleep
    \/ scripted_video
    \/ scripted_caption_GoogleSearch
    \/ download_video_caption_PPT
    \/ main_except
    \/ main_success

SpecScripted == InitScripted /\ [][NextScripted]_vars

-----------------------------------------------------------------------------
(* The GoogleSearch, PPT and Youtube scripts against a status endpoint that *)
(* answers as it likes and artifact URLs that answer 200.  The script is    *)
(* one thread that nothing stops: whenever it has a next step, it takes it. *)
(* The job is one slide with its script.                                    *)

InitLive == InitFor(PollingVariants, {1}, { <<text>> : text \in Texts })

NextLive ==
    \/ \E k \in 1..MaxImages + 1 : worker_start(k)
    \/ \E k \in 1..MaxImages + 1 : worker_finish(k)
    \/ map_collect
    \/ executor_exit
    \/ build_scenes
    \/ ppt_upload
    \/ ppt_loop_exit
    \/ generate
    \/ download_video_poll
    \/ download_video_sleep
    \/ scripted_video
    \/ scripted_caption_GoogleSearch
    \/ download_video_caption_PPT
    \/ main_except
    \/ main_success

SpecLive == InitLive /\ [][NextLive]_vars /\ WF_vars(NextLive)

-----------------------------------------------------------------------------
(* fetch_content_and_make_pptx of the GoogleSearch and Youtube scripts,     *)
(* from the list of content items on.  A string is a sequence of pieces;    *)
(* the full stop is a piece of its own, every other piece holds none.       *)

ITEMS_PER_PAGE == 3
QR_LIMIT == 5

STOP == "."
CLOSING == "that was today's YouTube trends"
QR_SCRIPT == <<"scan the QR code or follow the link to watch the video", STOP,
               "thanks for watching, see you next time">>
PARTIAL_SCRIPT == <<"those were some of the highlights", STOP>>

(* An item: whether it has a highlight (GoogleSearch: a summary or title),  *)
(* and the text spoken for it, which may end in a full stop.                *)
Items ==
    { [highlight |-> FALSE, speech |-> <<>>],
      [highlight |-> TRUE, speech |-> <<"speech">>],
      [highlight |-> TRUE, speech |-> <<"speech", STOP>>] }

IntroScripts == { <<"intro">>, <<"intro", STOP>> }

(* [final_data[i:i + 3] for i in range(0, len(final_data), 3)]              *)
Chunks(items) ==
    [k \in 1..((Len(items) + ITEMS_PER_PAGE - 1) \div ITEMS_PER_PAGE) |->
        SubSeq(items, ITEMS_PER_PAGE * (k - 1) + 1, Min(ITEMS_PER_PAGE * k, Len(items)))]

(* The items of a page that are not skipped.                                *)
RECURSIVE TitlesOnPage(_)
TitlesOnPage(chunk) ==
    IF chunk = <<>> THEN <<>>
    ELSE IF Head(chunk).highlight
         THEN <<Head(chunk).speech>> \o TitlesOnPage(Tail(chunk))
         ELSE TitlesOnPage(Tail(chunk))

(* sep.join(titles)                                                         *)
RECURSIVE Join(_, _)
Join(titles, sep) ==
    IF titles = <<>> THEN <<>>
    ELSE IF Len(titles) = 1 THEN titles[1]
    ELSE titles[1] \o sep \o Join(Tail(titles), sep)

(* s.replace of two full stops by one, left to right.                       *)
RECURSIVE ReplaceStops(_)
ReplaceStops(s) ==
    IF Len(s) < 2 THEN s
    ELSE IF s[1] = STOP /\ s[2] = STOP
         THEN <<STOP>> \o ReplaceStops(SubSeq(s, 3, Len(s)))
         ELSE <<s[1]>> \o ReplaceStops(Tail(s))

(* The script of page k of n (k counts from 1; the code's i is k - 1).      *)
PageScriptYoutube(k, n, intro, titles) ==
    IF titles = <<>> THEN PARTIAL_SCRIPT
    ELSE LET titles_script == Join(titles, <<STOP, "next, ">>) IN
         ReplaceStops(
           IF k = 1 THEN intro \o <<" first: ">> \o titles_script \o <<STOP>>
           ELSE IF k = n
                THEN <<"last pick: ">> \o titles_script \o <<STOP, CLOSING, STOP>>
           ELSE <<"going on: ">> \o titles_script \o <<STOP>>)

PageScriptGoogleSearch(k, n, intro, titles) ==
    IF titles = <<>> THEN PARTIAL_SCRIPT
    ELSE LET titles_script == Join(titles, <<STOP, "next is, ">>) IN
         ReplaceStops(
           IF n = 1
           THEN <<"today's points: ">> \o titles_script
                    \o <<STOP, "that was today's bulletin, thanks for watching", STOP>>
           ELSE IF k = 1 THEN <<"first: ">> \o titles_script \o <<STOP>>
           ELSE IF k = n
                THEN <<"last: ">> \o titles_script
                         \o <<STOP, "that was today's bulletin, thanks for watching", STOP>>
           ELSE <<"further: ">> \o titles_script \o <<STOP>>)

PageScript(v, k, n, intro, titles) ==
    IF v = "Youtube" THEN PageScriptYoutube(k, n, intro, titles)
    ELSE PageScriptGoogleSearch(k, n, intro, titles)

runVars == <<variant, image_paths, scripts, raised, createVars, net, dlVars, fault>>

(* GoogleSearch: the cover slide and the intro as its script.               *)
pptx_cover ==
    /\ pc = "pptx_cover"
    /\ deck' = [deck EXCEPT !.slides = Append(@, "cover"),
                            !.final_scripts = Append(@, deck.intro_script)]
    /\ pc' = "pptx_pages"
    /\ UNCHANGED <<subtitle, runVars>>

(* One pass of the loop over the chunks, or its end.                        *)
pptx_page ==
    /\ pc = "pptx_pages"
    /\ LET chunks == Chunks(deck.final_data) IN
         IF deck.page <= Len(chunks)
         THEN LET titles_on_page == TitlesOnPage(chunks[deck.page]) IN
              /\ deck' = [deck EXCEPT
                    !.slides = Append(@, "page"),
                    !.all_collected_urls = @ + Len(titles_on_page),
                    !.final_scripts = Append(@, PageScript(variant, deck.page, Len(chunks),
                                                           deck.intro_script, titles_on_page)),
                    !.page = @ + 1]
              /\ pc' = pc
         ELSE /\ pc' = IF variant = "Youtube" THEN "pptx_qr" ELSE "pptx_save"
              /\ deck' = deck
    /\ UNCHANGED <<subtitle, runVars>>

(* A QR-code page that is added without a script of its own.               *)
pptx_qr_NoScript ==
    /\ pc = "pptx_qr"
    /\ deck' = IF deck.all_collected_urls > 0
               THEN [deck EXCEPT
                       !.slides = Append(@, "qr"),
                       !.temp_qr_files = Min(deck.all_collected_urls, QR_LIMIT)]
               ELSE deck
    /\ pc' = "pptx_save"
    /\ UNCHANGED <<subtitle, runVars>>

(* Youtube: the QR-code page, when a URL was collected.                     *)
pptx_qr ==
    /\ pc = "pptx_qr"
    /\ deck' = IF deck.all_collected_urls > 0
               THEN [deck EXCEPT
                       !.slides = Append(@, "qr"),
                       !.temp_qr_files = Min(deck.all_collected_urls, QR_LIMIT),
                       !.final_scripts = Append(@, QR_SCRIPT)]
               ELSE deck
    /\ pc' = "pptx_save"
    /\ UNCHANGED <<subtitle, runVars>>

(* prs.save, Youtube's loop over temp_qr_files, and the return.  The name   *)
(* temp_qr_files is unbound (-1) unless the QR-code page was made.          *)
pptx_save ==
    /\ pc = "pptx_save"
    /\ deck' = [deck EXCEPT !.saved = TRUE]
    /\ IF variant = "Youtube" /\ deck.temp_qr_files = -1
       THEN /\ pc' = "pptx_raised"
            /\ raised' = Exc("UnboundLocalError", "temp_qr_files")
       ELSE /\ pc' = "pptx_returned"
            /\ raised' = raised
    /\ UNCHANGED <<subtitle, variant, image_paths, scripts, createVars, net, dlVars, fault>>

InitDeck ==
    /\ InitRun(ConcurrentVariants, {0}, {<<>>})
    /\ pc = IF variant = "GoogleSearch" THEN "pptx_cover" ELSE "pptx_pages"
    /\ \E intro \in IntroScripts, items \in SeqsUpTo(Items, MaxItems) :
         deck = [intro_script |-> intro, final_data |-> items, page |-> 1,
                 slides |-> <<>>, final_scripts |-> <<>>, all_collected_urls |-> 0,
                 temp_qr_files |-> -1, saved |-> FALSE]
    /\ subtitle = NoSubtitle

NextDeck ==
    \/ pptx_cover
    \/ pptx_page
    \/ pptx_qr
    \/ pptx_save

SpecDeck == InitDeck /\ [][NextDeck]_vars

-----------------------------------------------------------------------------
(* convert_ass_to_srt of the PPT script.  Times are counted in ticks of a   *)
(* tenth of a millisecond since midnight of the base date 1900-01-01.       *)

TICKS_PER_MS == 10
TICKS_PER_CS == 100
TICKS_PER_SECOND == 10000
TICKS_PER_DAY == 864000000

(* An ASS time field h:mm:ss.cc as its four numbers, or no such thing.      *)
AssTime(h, m, s, cs) == [h |-> h, m |-> m, s |-> s, cs |-> cs]
NoAssTime == [h |-> -1, m |-> -1, s |-> -1, cs |-> -1]

AssTimes == { AssTime(0, 0, 0, 50), AssTime(0, 0, 2, 0), AssTime(23, 59, 59, 50), NoAssTime }

(* The four numbers are parsed and handed to datetime, which takes hours    *)
(* below 24 and minutes and seconds below 60; whatever fails gives the base *)
(* time.                                                                    *)
parse_ass_time(time_str) ==
    IF /\ time_str # NoAssTime
       /\ time_str.h \in 0..23
       /\ time_str.m \in 0..59
       /\ time_str.s \in 0..59
    THEN ((time_str.h * 60 + time_str.m) * 60 + time_str.s) * TICKS_PER_SECOND
            + time_str.cs * TICKS_PER_CS
    ELSE 0

(* offset_seconds, in ticks: -1.3 s (the caller's), -1 s (the default),     *)
(* none, half a millisecond, one second.                                    *)
Offsets == {-13000, -10000, 0, 5, 10000}

(* A line of the file: a Dialogue line with its comma-separated fields (10  *)
(* or fewer), or any other line.                                            *)
DialogueLine(n, start, end, text) ==
    [dialogue |-> TRUE, fields |-> n, start |-> start, end |-> end, text |-> text]
OtherLine == [dialogue |-> FALSE, fields |-> 0, start |-> NoAssTime, end |-> NoAssTime,
              text |-> "none"]

AssLines ==
    { OtherLine, DialogueLine(9, NoAssTime, NoAssTime, "none") }
    \cup { DialogueLine(10, start, end, text) :
              start \in AssTimes, end \in AssTimes, text \in {"a", "b"} }

(* A shift that is not held at the base time.                               *)
ClampNone(t) == t

(* if new_start < base_time: new_start = base_time                          *)
Clamp(t) == IF t < 0 THEN 0 ELSE t

(* strftime("%H:%M:%S,%f")[:-3]: the time of day, cut to milliseconds.      *)
FormatStamp(t) ==
    LET tod == t % TICKS_PER_DAY IN
      [h |-> tod \div (3600 * TICKS_PER_SECOND),
       m |-> (tod \div (60 * TICKS_PER_SECOND)) % 60,
       s |-> (tod \div TICKS_PER_SECOND) % 60,
       ms |-> (tod % TICKS_PER_SECOND) \div TICKS_PER_MS]

(* The loop over the lines: the events of the Dialogue lines with 10 fields.*)
RECURSIVE SrtEvents(_, _)
SrtEvents(lines, offset) ==
    IF lines = <<>> THEN <<>>
    ELSE LET line == Head(lines) IN
         IF line.dialogue /\ line.fields >= 10
         THEN <<[start |-> Clamp(parse_ass_time(line.start) + offset),
                 end |-> Clamp(parse_ass_time(line.end) + offset),
                 text |-> line.text]>> \o SrtEvents(Tail(lines), offset)
         ELSE SrtEvents(Tail(lines), offset)

(* The file as written: one numbered cue per event.                         *)
SrtCues(events) ==
    [idx \in 1..Len(events) |->
        [idx |-> idx, start |-> FormatStamp(events[idx].start),
         end |-> FormatStamp(events[idx].end), text |-> events[idx].text]]

convert_ass_to_srt ==
    /\ pc = "convert"
    /\ LET srt_events == SrtEvents(subtitle.lines, subtitle.offset_seconds) IN
         subtitle' = IF srt_events = <<>> THEN subtitle
                     ELSE [subtitle EXCEPT !.file = [format |-> "srt",
                                                      content |-> SrtCues(srt_events)]]
    /\ pc' = "converted"
    /\ UNCHANGED <<deck, runVars>>

InitSrt ==
    /\ InitRun({"PPT"}, {0}, {<<>>})
    /\ pc = "convert"
    /\ deck = NoDeck
    /\ \E lines \in SeqsUpTo(AssLines, MaxLines), offset \in Offsets :
         subtitle = [lines |-> lines, offset_seconds |-> offset,
                     file |-> [format |-> "ass", content |-> lines]]

SpecSrt == InitSrt /\ [][convert_ass_to_srt]_vars

-----------------------------------------------------------------------------
(* The properties.                                                         *)

(* download_video has ended, normally or with an exception.                *)
DownloadEnded ==
    /\ variant \in PollingVariants
    /\ \/ pc \in {"dl_returned", "dl_raised", "exit_ok"}
       \/ pc = "exit_error" /\ video_id # 0

NoUploadRequest == \A k \in 1..Len(image_paths) : net.upload[k] = 0

\* C1: in the GoogleSearch, PPT and Youtube scripts download_video neither
\* returns nor raises before a status response whose status is "completed"
\* or "failed" has been received.
C1_NoPrematureReturn == DownloadEnded => seen \in {"completed", "failed"}

C1_Witness ==
    /\ pc = "dl_returned"
    /\ hiccups >= 1
    /\ net.status = MaxPolls
    /\ data.status = "completed"

\* C2: once a status response of "completed" or "failed" has been received,
\* no further status request is issued.
C2_NoPollAfterTerminal == [][seen # "none" => net'.status = net.status]_vars

\* C3: when the job's status is "failed" with error detail e, download_video
\* ends by raising an error that carries e, and no artifact download request
\* has been issued.
C3_FailedRaisesWithDetail ==
    (DownloadEnded /\ data.status = "failed")
        => /\ pc \in {"dl_raised", "exit_error"}
           /\ raised.msg = data.error
           /\ net.video = 0
           /\ net.caption = 0

\* C4: a status request that fails in transport or is answered with a
\* malformed body is no terminal state and ends nothing: the client sleeps
\* and polls again, and a "completed" or "failed" answer that follows such
\* failures is handled as one that follows none (the download starts, or the
\* call ends).
C4_HiccupsRetried ==
    [][ /\ hiccups' # hiccups
            => pc' = "sleep" /\ sleepSecs' > 0 /\ seen' = seen /\ raised' = NoExc
        /\ pc = "sleep" => pc' = "poll"
        /\ (pc = "poll" /\ hiccups' = hiccups /\ hiccups > 0 /\ data'.status = "completed")
            => pc' = "video" /\ seen' = "completed"
        /\ (pc = "poll" /\ hiccups' = hiccups /\ hiccups > 0 /\ data'.status = "failed")
            => pc' \in {"dl_returned", "dl_raised"} /\ seen' = "failed"
      ]_vars

C4_Witness ==
    /\ hiccups >= 2
    /\ pc = "dl_returned"
    /\ data.status = "completed"
    /\ files.video = "artifact"

\* C5: a transport error of the generate request or of an artifact download
\* ends the operation with that error delivered to the caller: from then on
\* the script is on its error path, with no retry and no further request.
C5_TransportErrorPropagates ==
    (fault.submit \/ fault.fetch)
        => /\ pc \in {"create_raised", "dl_raised", "exit_error"}
           /\ raised.type = "TransportError"

\* C6: create_full_video with no image/script pair to submit issues no
\* network request (no upload, no generate) and yields no job.
C6_EmptyRejectedLocally ==
    (variant \in PollingVariants /\ Min(Len(image_paths), Len(scripts)) = 0)
        => generated = <<>> /\ NoUploadRequest /\ video_id = 0

\* C7: in the GoogleSearch and Youtube create_full_video, when all uploads
\* succeed, bg_ids has the length of image_paths and bg_ids[k] is the asset
\* id the upload of image_paths[k] returned, whatever the completion order.
C7_UploadOrderPreserved ==
    (variant \in ConcurrentVariants /\ pc \in {"scenes", "generate"})
        => /\ Len(bg_ids) = Len(image_paths)
           /\ \A k \in 1..Len(image_paths) :
                uploadedAs[k] # 0 /\ bg_ids[k] = uploadedAs[k]

C7_Witness ==
    /\ variant \in ConcurrentVariants
    /\ pc = "scenes"
    /\ Len(bg_ids) = 2
    /\ bg_ids[1] > bg_ids[2]

\* C8: once the upload of an image has failed (transport error or
\* non-success HTTP status), no generate request is issued, no scene is
\* built, and the script does not end as if it had succeeded.
C8_UploadFailureAborts ==
    [][fault.upload
         => generated' = generated /\ scenes' = scenes /\ pc' # "exit_ok"]_vars

\* C9: when the generate request is answered with a non-success HTTP status,
\* or with 200 and a non-empty error field, create_full_video raises an
\* error that carries the response body and returns no job id.
C9_RejectionCarriesBody ==
    (variant \in PollingVariants /\ fault.rejected)
        => /\ pc \in {"create_raised", "exit_error"}
           /\ raised.msg \in GenerateBodies
           /\ video_id = 0

\* C10: in the GoogleSearch, PPT and Youtube scripts at most one generate
\* request is issued over a whole run, whatever the outcome of submission,
\* polling and download.
C10_AtMostOneGenerate ==
    variant \in PollingVariants => Len(generated) <= 1

C10_Witness ==
    /\ variant \in PollingVariants
    /\ pc = "exit_error"
    /\ seen = "failed"
    /\ Len(generated) = 1

\* C11: when the job is "completed" and the download of an artifact is
\* answered with a non-success HTTP status, download_video fails with an
\* error delivered to its caller (and the download is not requested again).
C11_BadDownloadStatusRaises ==
    (variant \in PollingVariants
        /\ (files.video = "errorbody" \/ files.caption = "errorbody"))
        => /\ pc \in {"dl_raised", "exit_error"}
           /\ net.video <= 1
           /\ net.caption <= 1

\* C12: in every run of download_video, also one in which a download or a
\* file write raises, the video URL and the caption URL of the completed job
\* are each requested at most once; and exactly once when the call returns
\* normally and the completed status response holds that URL.
C12_EachArtifactOnce ==
    variant \in PollingVariants
        => /\ net.video <= 1
           /\ net.caption <= 1
           /\ (pc = "dl_returned" /\ data.status = "completed" /\ data.video_url)
                => net.video = 1
           /\ (pc = "dl_returned" /\ data.status = "completed" /\ data.caption_url)
                => net.caption = 1

RECURSIVE Unspaced(_)
Unspaced(text) ==
    IF text = <<>> THEN <<>>
    ELSE IF Head(text) = SPACE THEN Unspaced(Tail(text))
         ELSE <<Head(text)>> \o Unspaced(Tail(text))

Uploaded == { k \in 1..Len(image_paths) : uploadedAs[k] # 0 }

\* C14: for non-empty image and script lists, the video_inputs of the
\* generate request pair images and scripts by index: there are as many
\* scenes as uploaded images, and scene k has the asset id of image k as its
\* background and script k as its spoken text, so that every uploaded asset
\* is in exactly one scene.
C14_ScenesPairByIndex ==
    (variant \in PollingVariants /\ generated # <<>>
        /\ image_paths # <<>> /\ scripts # <<>>)
        => LET video_inputs == generated[1] IN
             /\ Len(video_inputs) = Cardinality(Uploaded)
             /\ \A k \in 1..Len(video_inputs) :
                  /\ k \in Uploaded
                  /\ video_inputs[k].image_asset_id = uploadedAs[k]
                  /\ k <= Len(scripts)
                  /\ Unspaced(video_inputs[k].input_text) = Unspaced(scripts[k])

\* C15: in all four scripts the voice of a scene is VOICE_ID_ZH when its text
\* holds at least one character in U+4E00..U+9FFF and VOICE_ID_EN otherwise;
\* in the video-only script the locale is "zh-TW" exactly when the Chinese
\* voice is selected and "en-US" otherwise.
C15_VoiceFollowsCJK ==
    \A k \in 1..Len(scenes) :
        LET chinese == \E j \in 1..Len(scripts[k]) :
                          scripts[k][j] >= 19968 /\ scripts[k][j] <= 40959
        IN /\ scenes[k].voice_id = IF chinese THEN "VOICE_ID_ZH" ELSE "VOICE_ID_EN"
           /\ variant = "VideoOnly"
                => scenes[k].locale = IF chinese THEN "zh-TW" ELSE "en-US"

C15_Witness ==
    /\ variant = "VideoOnly"
    /\ Len(scenes) = 1
    /\ scripts[1] = <<72, 40959>>
    /\ scenes[1].voice_id = "VOICE_ID_ZH"
    /\ scenes[1].locale = "zh-TW"

C18_SleepBetweenPolls ==
    [][ /\ net'.status # net.status => pc' # "poll"
        /\ (pc # "poll" /\ pc' = "poll") => (pc = "sleep" \/ net.status = 0)
        /\ (net'.status # net.status /\ hiccups' = hiccups
                /\ data'.status \notin {"completed", "failed"})
            => /\ pc' = "sleep"
               /\ sleepSecs' = IF variant = "PPT" THEN 10 ELSE 15
               /\ seen' = seen
        /\ pc = "sleep" => pc' = "poll" /\ net'.status = net.status
      ]_vars

C18_Witness ==
    /\ pc = "poll"
    /\ net.status = 2
    /\ data.kind = "nostatus"
    /\ hiccups = 0
    /\ seen = "none"

\* C19: with the downloads succeeding, download_video ends once the status
\* endpoint has answered "completed" or "failed"; and as long as every
\* status request has failed or been answered with an in-progress status the
\* call is still in its loop, about to sleep or to issue the next status
\* request: no timeout, attempt limit or cancellation ends it.
C19_EndsIffTerminalAnswer ==
    /\ [](video_id # 0 /\ seen = "none" => pc \in {"poll", "sleep"} /\ raised = NoExc)
    /\ (seen # "none") ~> DownloadEnded

C19_Witness ==
    /\ video_id # 0
    /\ seen = "none"
    /\ net.status = MaxPolls
    /\ hiccups >= 1
    /\ hiccups < MaxPolls
    /\ pc = "sleep"

\* C20: whenever download_video returns normally, the video artifact has
\* been downloaded and written to the output path, whatever the sequence of
\* status responses ("completed" without a video_url and "failed" included).
C20_ReturnMeansVideoWritten ==
    (variant \in PollingVariants /\ pc \in {"dl_returned", "exit_ok"})
        => /\ net.video >= 1
           /\ files.video = "artifact"

\* C21: the Youtube fetch_content_and_make_pptx saves the deck and returns
\* without raising for every list of generated items, the empty list and a
\* list without any highlight included.
C21_DeckReturnsForEveryList ==
    variant = "Youtube" => pc # "pptx_raised"

(* The items of page p (of up to 3 items each) that have a highlight, and  *)
(* how often a piece occurs in a string.                                   *)
Highlighted(p) ==
    { j \in 1..Len(deck.final_data) :
        /\ 3 * (p - 1) < j
        /\ j <= 3 * p
        /\ deck.final_data[j].highlight }

Pages == (Len(deck.final_data) + 2) \div 3

Occurrences(s, piece) == Cardinality({ j \in 1..Len(s) : s[j] = piece })

\* C22: in the GoogleSearch and Youtube fetch_content_and_make_pptx the
\* script list has exactly one script per slide the function adds, in slide
\* order: GoogleSearch the cover (the intro) and then one per page of up to
\* 3 items, Youtube one per page and then the QR-code page when it is added;
\* the script of a page speaks of exactly the items shown on that page.
C22_OneScriptPerSlide ==
    /\ Len(deck.final_scripts) = Len(deck.slides)
    /\ pc = "pptx_returned"
        => LET cover == IF variant = "GoogleSearch" THEN 1 ELSE 0
               qr == IF variant = "Youtube" /\ \E p \in 1..Pages : Highlighted(p) # {}
                     THEN 1 ELSE 0
           IN /\ Len(deck.slides) = cover + Pages + qr
              /\ \A k \in 1..Len(deck.slides) :
                   /\ deck.slides[k] = "cover"
                        => k = 1 /\ deck.final_scripts[k] = deck.intro_script
                   /\ deck.slides[k] = "qr"
                        => k = Len(deck.slides) /\ deck.final_scripts[k] = QR_SCRIPT
                   /\ deck.slides[k] = "page"
                        => Occurrences(deck.final_scripts[k], "speech")
                              = Cardinality(Highlighted(k - cover))

C22_Witness ==
    /\ variant = "Youtube"
    /\ pc = "pptx_returned"
    /\ deck.slides = <<"page", "page", "page", "qr">>
    /\ Highlighted(2) = {}
    /\ Cardinality(Highlighted(1)) = 3

Contains(s, sub) ==
    \E a \in 0..(Len(s) - Len(sub)) : SubSeq(s, a + 1, a + Len(sub)) = sub

\* C23: in the Youtube fetch_content_and_make_pptx, for n >= 1 pages that
\* each show at least one item, the script of the first page contains the
\* intro script and the script of the last page contains the closing
\* statement, also when n = 1 and the first page is the last.
C23_IntroFirstClosingLast ==
    (variant = "Youtube" /\ pc = "pptx_returned" /\ Pages >= 1
        /\ \A p \in 1..Pages : Highlighted(p) # {})
        => /\ Contains(deck.final_scripts[1], deck.intro_script)
           /\ Contains(deck.final_scripts[Pages], <<CLOSING>>)

\* C24: in the PPT download_video, once the job is "completed" and the video
\* step is over, the caption step ends the call normally whatever happens
\* while the caption is downloaded, saved or converted: nothing is raised,
\* no further status request is issued, and the video is neither downloaded
\* nor written again, then or later.
C24_CaptionFailureIsolated ==
    [][ /\ (variant = "PPT" /\ pc = "caption")
            => /\ pc' = "dl_returned"
               /\ raised' = NoExc
               /\ net'.status = net.status
               /\ net'.video = net.video
               /\ files'.video = files.video
               /\ files'.videoWrites = files.videoWrites
        /\ (variant = "PPT" /\ pc \in {"dl_returned", "exit_ok"})
            => /\ net' = net
               /\ files' = files
               /\ pc' \in {"dl_returned", "exit_ok"}
      ]_vars

C24_Witness ==
    /\ variant = "PPT"
    /\ pc = "exit_ok"
    /\ data.caption_url
    /\ net.caption = 1
    /\ files.caption \in {"absent", "empty", "raw"}
    /\ net.video = 1
    /\ files.video = "artifact"
    /\ files.videoWrites = 1

(* The Dialogue lines that are parsed, in the order of the file; the ticks *)
(* a written time stamp stands for; and a cue's place and text.            *)
ParsedDialogues == SelectSeq(subtitle.lines, LAMBDA l : l.dialogue /\ l.fields >= 10)

StampTicks(st) == ((st.h * 60 + st.m) * 60 + st.s) * 10000 + st.ms * 10

Shifted(time_str) ==
    LET t == parse_ass_time(time_str) + subtitle.offset_seconds IN
      IF t > 0 THEN t ELSE 0

CuesInOrder ==
    /\ subtitle.file.format = "srt"
    /\ Len(subtitle.file.content) = Len(ParsedDialogues)
    /\ \A k \in 1..Len(ParsedDialogues) :
         /\ subtitle.file.content[k].idx = k
         /\ subtitle.file.content[k].text = ParsedDialogues[k].text

\* C25 as stated: after convert_ass_to_srt, for every file and every offset,
\* the cues are numbered 1..n in the order of the parsed Dialogue lines, the
\* start and the end of each written cue are max(0, parsed time + offset),
\* and without a parsed Dialogue line the file is as it was.
C25_CuesShiftedAndClamped ==
    pc = "converted"
        => IF ParsedDialogues = <<>>
           THEN subtitle.file = [format |-> "ass", content |-> subtitle.lines]
           ELSE /\ CuesInOrder
                /\ \A k \in 1..Len(ParsedDialogues) :
                     /\ StampTicks(subtitle.file.content[k].start)
                           = Shifted(ParsedDialogues[k].start)
                     /\ StampTicks(subtitle.file.content[k].end)
                           = Shifted(ParsedDialogues[k].end)

\* C25: as above, the written start and end being max(0, parsed time +
\* offset) cut to whole milliseconds and taken as a time of day: equal to
\* max(0, parsed time + offset) when that is a whole number of milliseconds
\* below 24 hours, and never negative.
C25_CuesShiftedWithinDay ==
    pc = "converted"
        => IF ParsedDialogues = <<>>
           THEN subtitle.file = [format |-> "ass", content |-> subtitle.lines]
           ELSE /\ CuesInOrder
                /\ \A k \in 1..Len(ParsedDialogues) :
                     LET cue == subtitle.file.content[k]
                         start == Shifted(ParsedDialogues[k].start)
                         end == Shifted(ParsedDialogues[k].end)
                     IN /\ StampTicks(cue.start) = ((start % 864000000) \div 10) * 10
                        /\ StampTicks(cue.end) = ((end % 864000000) \div 10) * 10
                        /\ (start < 864000000 /\ start % 10 = 0)
                              => StampTicks(cue.start) = start
                        /\ (end < 864000000 /\ end % 10 = 0)
                              => StampTicks(cue.end) = end
                        /\ StampTicks(cue.start) >= 0
                        /\ StampTicks(cue.end) >= 0

C25_Witness ==
    /\ pc = "converted"
    /\ subtitle.offset_seconds = -13000
    /\ Len(ParsedDialogues) = 2
    /\ Len(subtitle.lines) = 2
    /\ ParsedDialogues[1].start = AssTime(0, 0, 0, 50)
    /\ ParsedDialogues[1].end = AssTime(0, 0, 2, 0)
    /\ ParsedDialogues[1].text = "b"
    /\ ParsedDialogues[2].text = "a"
    /\ subtitle.file.format = "srt"
    /\ subtitle.file.content[1].start = [h |-> 0, m |-> 0, s |-> 0, ms |-> 0]
    /\ subtitle.file.content[1].end = [h |-> 0, m |-> 0, s |-> 0, ms |-> 700]

(* The slides whose generate request has been issued, in the order of the  *)
(* requests: the slide of a request is the one whose asset its scene shows. *)
GeneratedSlides ==
    [g \in 1..Len(generated) |->
        { k \in 1..Len(image_paths) :
            /\ uploadedAs[k] # 0
            /\ generated[g] = <<SceneVideoOnly(uploadedAs[k], ScriptFor(k))>> }]

\* C26: the video-only main takes the slides in list order, one at a time:
\* every generate request is for one slide that has a non-empty script and
\* whose upload has returned an asset id (the upload of slide i completes
\* before its generate request); the requests follow the slide order with at
\* most one per slide; no slide is uploaded twice; and when the upload of a
\* slide has started, every earlier slide with an uploaded asset already has
\* its generate request (generate i precedes upload i+1).
C26_SlidesInOrderOneAtATime ==
    variant = "VideoOnly"
        => /\ \A g \in 1..Len(generated) :
                \E k \in 1..Len(image_paths) :
                    /\ GeneratedSlides[g] = {k}
                    /\ ScriptFor(k) # <<>>
                    /\ net.upload[k] = 1
                    /\ k <= i
           /\ \A g, h \in 1..Len(generated) :
                g < h => \A k \in GeneratedSlides[g], l \in GeneratedSlides[h] : k < l
           /\ \A k \in 1..Len(image_paths) :
                /\ net.upload[k] <= 1
                /\ net.upload[k] > 0
                     => /\ k <= i
                        /\ \A j \in 1..(k - 1) :
                             uploadedAs[j] # 0
                                 => \E g \in 1..Len(generated) : j \in GeneratedSlides[g]

C26_Witness ==
    /\ variant = "VideoOnly"
    /\ pc = "exit_ok"
    /\ Len(image_paths) = 2
    /\ Len(generated) = 2
    /\ GeneratedSlides[1] = {1}
    /\ GeneratedSlides[2] = {2}

====
